---- MODULE Spec2Model ----
(***************************************************************************)
(* A model of yreddit.py: the identifier extraction and candidate feed,    *)
(* the paginated playlist-item fetcher, the two shelve ledgers and the     *)
(* run of main that seeds the watch history, drains the target playlist    *)
(* and inserts the eligible candidates.                                    *)
(*                                                                         *)
(* Text is a sequence of one-character strings.  A key handed to a ledger  *)
(* is a record [type, chars]: a unicode string or a byte string.           *)
(***************************************************************************)
EXTENDS Integers, Sequences, FiniteSets, TLC

(***************************************************************************)
(* Bounds of the model.                                                    *)
(***************************************************************************)
MaxRecords == 2       \* records over the four upstream listings (feed specification)
MaxCandidates == 2    \* records over the four upstream listings (run of main)
MaxRuns == 2          \* runs of main in one behaviour
MaxWatched == 2       \* length of the remote watch history
MaxStale == 2         \* entries of an existing target playlist
MaxBudget == 3        \* fetch budgets 0..MaxBudget and PAGE_CEILING..PAGE_CEILING + MaxBudget
MaxCollection == 3    \* remote collections of 0..MaxCollection items, and as many past the ceiling
MaxShort == 1         \* a page is full or holds at most MaxShort items
MaxEmptyPages == 1    \* empty pages with a cursor served to one fetch

(***************************************************************************)
(* Program constants.                                                      *)
(***************************************************************************)
READDITION_GRACE_SECONDS == 2 * 24 * 60 * 60
PAGE_CEILING == 50
DRAIN_FETCH_COUNT == 500
WATCH_FETCH_COUNT == 1000
NUM_SOURCES == 4
YOUTUBE_PROVIDER == "https://www.youtube.com/"
TITLE == "Today's top reddit videos"

(***************************************************************************)
(* Text helpers.                                                           *)
(***************************************************************************)
Min(a, b) == IF a < b THEN a ELSE b

\* str.split(sep): the pieces of s between the occurrences of sep.
RECURSIVE SplitFrom(_, _, _)
SplitFrom(s, sep, cur) ==
    IF s = <<>> THEN <<cur>>
    ELSE IF Head(s) = sep THEN <<cur>> \o SplitFrom(Tail(s), sep, <<>>)
    ELSE SplitFrom(Tail(s), sep, Append(cur, Head(s)))

split(s, sep) == SplitFrom(s, sep, <<>>)

\* s has pat at position i (1-based).
MatchAt(s, pat, i) ==
    /\ i >= 1
    /\ i + Len(pat) - 1 <= Len(s)
    /\ SubSeq(s, i, i + Len(pat) - 1) = pat

\* The end of the longest run of characters other than stop that starts at i
\* (i - 1 when the run is empty).
RECURSIVE RunEnd(_, _, _)
RunEnd(s, stop, i) ==
    IF i > Len(s) \/ s[i] = stop THEN i - 1 ELSE RunEnd(s, stop, i + 1)

SRC_ATTR == <<"s", "r", "c", "=", "\"">>
EMBED == <<"e", "m", "b", "e", "d", "/">>

(***************************************************************************)
(* to_id: `_, id = url.split('=')` unpacks exactly two pieces; any other   *)
(* number of pieces raises ValueError.                                     *)
(***************************************************************************)
to_id(url) ==
    LET parts == split(url, "=")
    IN  IF Len(parts) = 2
        THEN [raised |-> FALSE, id |-> parts[2]]
        ELSE [raised |-> TRUE, id |-> <<>>]

(***************************************************************************)
(* extract_video_id_from_html: re.search('src="[^"]+embed/([^?]+)', html). *)
(* The leftmost start wins; [^"]+ is greedy, so for that start the last    *)
(* position of embed/ inside the quote-free run wins; the group is the     *)
(* longest run without '?'.  found = FALSE stands for None.                *)
(***************************************************************************)
EmbedPositions(html, i) ==
    \* positions j of embed/ reachable from a src=" at i
    LET first == i + Len(SRC_ATTR)
        last == RunEnd(html, "\"", first)
    IN  { j \in (first + 1)..(last + 1) :
            /\ MatchAt(html, EMBED, j)
            /\ RunEnd(html, "?", j + Len(EMBED)) >= j + Len(EMBED) }

MatchStarts(html) ==
    { i \in 1..Len(html) : MatchAt(html, SRC_ATTR, i) /\ EmbedPositions(html, i) # {} }

SetMin(S) == CHOOSE x \in S : \A y \in S : x <= y
SetMax(S) == CHOOSE x \in S : \A y \in S : x >= y

extract_video_id_from_html(html) ==
    IF MatchStarts(html) = {}
    THEN [found |-> FALSE, id |-> <<>>]
    ELSE LET i == SetMin(MatchStarts(html))
             j == SetMax(EmbedPositions(html, i))
             g == j + Len(EMBED)
         IN  [found |-> TRUE, id |-> SubSeq(html, g, RunEnd(html, "?", g))]

(***************************************************************************)
(* Submission records.  media = FALSE is a record without a media payload; *)
(* keys is the set of fields the oembed block carries (empty when media    *)
(* has no oembed block: v.media.get('oembed', {})).                        *)
(***************************************************************************)
IdA == <<"a">>
IdX == <<"x">>
Ids == {IdA, IdX}

Url(id) == <<"w", "?", "v", "=">> \o id
Html(id) == <<"<">> \o SRC_ATTR \o <<"h", "/">> \o EMBED \o id \o <<"?", "f", "\"", ">">>

Record(media, keys, provider, url, html) ==
    [media |-> media, keys |-> keys, provider_url |-> provider, url |-> url, html |-> html]

NoMedia == Record(FALSE, {}, "", <<>>, <<>>)
NoOembed == Record(TRUE, {}, "", <<>>, <<>>)
Foreign == Record(TRUE, {"provider_url", "url"}, "https://vimeo.com/", Url(IdA), <<>>)
UrlOnly(id) == Record(TRUE, {"provider_url", "url"}, YOUTUBE_PROVIDER, Url(id), <<>>)
HtmlOnly(id) == Record(TRUE, {"provider_url", "html"}, YOUTUBE_PROVIDER, <<>>, Html(id))
Both(u, h) == Record(TRUE, {"provider_url", "url", "html"}, YOUTUBE_PROVIDER, Url(u), Html(h))
NoEquals == Record(TRUE, {"provider_url", "url"}, YOUTUBE_PROVIDER, <<"w", "/">> \o IdA, <<>>)
TwoEquals == Record(TRUE, {"provider_url", "url"}, YOUTUBE_PROVIDER, Url(IdA) \o <<"&", "t", "=", "1">>, <<>>)
PlainHtml == Record(TRUE, {"provider_url", "html"}, YOUTUBE_PROVIDER, <<>>, <<"<", "p", ">">>)

FeedRecords ==
    {NoMedia, NoOembed, Foreign, UrlOnly(IdA), UrlOnly(IdX), HtmlOnly(IdA),
     Both(IdA, IdA), Both(IdX, IdA), NoEquals, TwoEquals, PlainHtml}

RunRecords == {UrlOnly(IdA), UrlOnly(IdX), NoEquals}

SeqsUpTo(S, n) == UNION {[1..k -> S] : k \in 0..n}

\* The four listings cut out of one sequence of records.
Listings(flat, c1, c2, c3) ==
    <<SubSeq(flat, 1, c1), SubSeq(flat, c1 + 1, c2),
      SubSeq(flat, c2 + 1, c3), SubSeq(flat, c3 + 1, Len(flat))>>

Cuts(n) == { d \in [1..3 -> 0..n] : d[1] <= d[2] /\ d[2] <= d[3] }

Feeds(records, n) ==
    UNION { { Listings(flat, c[1], c[2], c[3]) : c \in Cuts(Len(flat)) } :
            flat \in SeqsUpTo(records, n) }

\* The feeds of a run: the records all in the first listing, or one record in
\* each of the first listings.
RunFeeds(records, n) ==
    UNION { { Listings(flat, Len(flat), Len(flat), Len(flat)),
              Listings(flat, Min(1, Len(flat)), Min(2, Len(flat)), Min(3, Len(flat))) } :
            flat \in SeqsUpTo(records, n) }

(***************************************************************************)
(* get_youtube_video_ids as a generator: the next event of the generator   *)
(* that stands at record rec of videos, before its url branch ("url") or   *)
(* before its html branch ("html").                                        *)
(***************************************************************************)
Event(kind, id, rec, stage) == [kind |-> kind, id |-> id, rec |-> rec, stage |-> stage]

NotYoutubeMissingOnly(v) == "provider_url" \notin v.keys

\* line 57: 'provider_url' not in oembed or oembed['provider_url'] != ...
NotYoutube(v) == "provider_url" \notin v.keys \/ v.provider_url # YOUTUBE_PROVIDER

RECURSIVE get_youtube_video_ids(_, _, _)
get_youtube_video_ids(videos, rec, stage) ==
    IF rec > Len(videos) THEN Event("stop", <<>>, rec, stage)
    ELSE LET v == videos[rec] IN
      IF stage = "url" THEN
        IF ~v.media THEN get_youtube_video_ids(videos, rec + 1, "url")
        ELSE IF NotYoutube(v)
          THEN get_youtube_video_ids(videos, rec + 1, "url")
        ELSE IF "url" \in v.keys THEN
          IF to_id(v.url).raised
          THEN Event("raise", <<>>, rec, stage)
          ELSE Event("yield", to_id(v.url).id, rec, "html")
        ELSE get_youtube_video_ids(videos, rec, "html")
      ELSE
        IF "html" \in v.keys /\ extract_video_id_from_html(v.html).found
        THEN Event("yield", extract_video_id_from_html(v.html).id, rec + 1, "url")
        ELSE get_youtube_video_ids(videos, rec + 1, "url")

(***************************************************************************)
(* get_videos_by_topness as a generator over the four listings: the next   *)
(* event from position pos = [src, rec, stage] with the set seen.          *)
(***************************************************************************)
UnseenAlways(id, seenIds) == TRUE

Unseen(id, seenIds) == id \notin seenIds

RECURSIVE get_videos_by_topness(_, _, _)
get_videos_by_topness(listings, pos, seenIds) ==
    IF pos.src > NUM_SOURCES
    THEN [kind |-> "stop", id |-> <<>>, pos |-> pos, seen |-> seenIds]
    ELSE LET e == get_youtube_video_ids(listings[pos.src], pos.rec, pos.stage)
             at == [src |-> pos.src, rec |-> e.rec, stage |-> e.stage]
         IN  IF e.kind = "stop"
             THEN get_videos_by_topness(listings,
                      [src |-> pos.src + 1, rec |-> 1, stage |-> "url"], seenIds)
             ELSE IF e.kind = "raise"
             THEN [kind |-> "raise", id |-> <<>>, pos |-> at, seen |-> seenIds]
             ELSE IF Unseen(e.id, seenIds)
             THEN [kind |-> "yield", id |-> e.id, pos |-> at, seen |-> seenIds \cup {e.id}]
             ELSE get_videos_by_topness(listings, at, seenIds)

StartPos == [src |-> 1, rec |-> 1, stage |-> "url"]

(***************************************************************************)
(* State.                                                                  *)
(***************************************************************************)
VARIABLES
    \* get_videos_by_topness
    sources,            \* the four listings of submission records
    pos,                \* where the generator stands: [src, rec, stage]
    seen,               \* the set seen
    candidates,         \* the ids yielded so far, in order
    feed,               \* "running", "stopped" (exhausted) or "raised"
    \* fetch_playlist_items
    fetch_count,        \* the remaining budget
    next_page_token,    \* <<>> for None, <<offset>> for a cursor
    fetching,           \* the generator has not finished
    budget,             \* fetch_count at the call
    total,              \* items of the remote collection at the call
    requested,          \* a playlistItems().list call was made by this fetch
    asked,              \* maxResults of the last call
    lastPage,           \* the last page answered: [n, cursor]
    empties,            \* empty pages with a cursor served so far
    yielded,            \* items yielded by this fetch
    \* main
    pc,                 \* "client", "history", "seed", "lookup", "drain", "candidates", "done"
    run,                \* the number of this run
    now,                \* time.time()
    started,            \* time.time() when this run started
    watch_history,      \* watch_history.shlv: byte-string key -> timestamp
    addition_history,   \* addition_history.shlv
    before,             \* addition_history.shlv as this run found it
    open,               \* the stores that are open
    caught,             \* what the bare except of main logged ("none" if nothing)
    \* the remote account
    watched,            \* the account's watch history, most recent first
    playlists,          \* the account's playlists as playlists().list answered
    created,            \* this run created the target playlist
    entries,            \* entries the target playlist held at the start and still holds
    stale,              \* entries the target playlist held at the start of the run
    inserts,            \* ids for which playlistItems().insert was called, in order
    added,              \* ids the remote accepted
    last,               \* the last candidate main examined and what became of it
    \* a shelf on its own
    probe               \* the last __setitem__ on the shelf and the lookup after it

feedVars == <<sources, pos, seen, candidates, feed>>
fetchVars == <<fetch_count, next_page_token, fetching, budget, total, requested,
               asked, lastPage, empties, yielded>>
ledgerVars == <<watch_history, addition_history, open>>
remoteVars == <<watched, playlists, created, entries, stale, inserts, added>>
mainVars == <<pc, run, now, started, before, caught, last>>
vars == <<feedVars, fetchVars, ledgerVars, remoteVars, mainVars, probe>>

(***************************************************************************)
(* fetch_playlist_items.  The remote serves the page that starts at the    *)
(* cursor's offset: at most maxResults items, a cursor whenever items      *)
(* remain after the page, and possibly a cursor at the end as well.        *)
(***************************************************************************)
NoToken == <<>>
NoPage == [n |-> 0, cursor |-> TRUE]

Offset(token) == IF token = NoToken THEN 0 ELSE token[1]

LoopContinuesInclusive(count) == count >= 0

\* line 115: while fetch_count > 0
LoopContinues(count) == count > 0

MaxResultsCeilingOnly(count) == PAGE_CEILING

\* line 118: maxResults=min(50, fetch_count)
MaxResults(count) == Min(PAGE_CEILING, count)

PageSizes(maxResults, left) ==
    { n \in 0..Min(maxResults, left) : n <= MaxShort \/ n = Min(maxResults, left) }

\* The pages the remote may answer with: [n, cursor].
Pages(maxResults, token, size) ==
    { [n |-> n, cursor |-> c] :
        n \in PageSizes(maxResults, size - Offset(token)),
        c \in BOOLEAN } \ 
    { [n |-> n, cursor |-> FALSE] : n \in 0..(size - Offset(token) - 1) }

\* The call: nothing runs until the first next(), which tests the loop.
fetch_playlist_items(size, count) ==
    /\ fetch_count' = count
    /\ next_page_token' = NoToken
    /\ fetching' = LoopContinues(count)
    /\ budget' = count
    /\ total' = size
    /\ requested' = FALSE
    /\ asked' = 0
    /\ lastPage' = NoPage
    /\ empties' = 0
    /\ yielded' = 0

BreaksNever(page) == FALSE

\* line 123: if 'nextPageToken' not in page: break
Breaks(page) == ~page.cursor

\* One iteration of the loop with the page the remote answered.
FetchIteration(page) ==
    /\ fetching
    /\ page \in Pages(MaxResults(fetch_count), next_page_token, total)
    /\ (page.n = 0 /\ page.cursor) => empties < MaxEmptyPages
    /\ requested' = TRUE
    /\ asked' = MaxResults(fetch_count)
    /\ lastPage' = page
    /\ empties' = IF page.n = 0 /\ page.cursor THEN empties + 1 ELSE empties
    /\ fetch_count' = fetch_count - page.n
    /\ yielded' = yielded + page.n
    /\ next_page_token' = IF Breaks(page) THEN next_page_token
                          ELSE <<Offset(next_page_token) + page.n>>
    /\ fetching' = (~Breaks(page) /\ LoopContinues(fetch_count - page.n))
    /\ UNCHANGED <<budget, total>>

(***************************************************************************)
(* ShelveWrapper.  A key is a unicode string or a byte string; the shelf   *)
(* is keyed by byte strings.  UTF-8 leaves an ASCII character alone and    *)
(* turns U+00E9 into the two bytes C3 A9.                                  *)
(***************************************************************************)
Unicode(chars) == [type |-> "unicode", chars |-> chars]
Str(chars) == [type |-> "str", chars |-> chars]

RECURSIVE UTF8(_)
UTF8(chars) ==
    IF chars = <<>> THEN <<>>
    ELSE (IF Head(chars) = "U+00E9" THEN <<"0xC3", "0xA9">> ELSE <<Head(chars)>>)
         \o UTF8(Tail(chars))

encode(key) == Str(UTF8(key.chars))

EmptyShelf == [k \in {} |-> 0]

ContainsRaw(store, key) == key \in DOMAIN store

\* lines 133-137: __contains__
ShelveWrapper_contains(store, key) ==
    IF key.type = "unicode" THEN encode(key) \in DOMAIN store
    ELSE key \in DOMAIN store

Put(store, k, value) ==
    [x \in DOMAIN store \cup {k} |-> IF x = k THEN value ELSE store[x]]

SetItemRaw(store, key, value) == Put(store, key, value)

\* lines 139-143: __setitem__
ShelveWrapper_setitem(store, key, value) ==
    IF key.type = "unicode" THEN Put(store, encode(key), value)
    ELSE Put(store, key, value)

\* The class defines no __getitem__: store[key] on an instance raises
\* AttributeError whatever the shelf holds.
ShelveWrapper_getitem(store, key) == [raised |-> TRUE, value |-> 0]

(***************************************************************************)
(* load_and_update_watch_history, lines 151-153: the ids of one page of    *)
(* the remote watch history are written unless present.  The clock is as   *)
(* coarse as a run: every time.time() of one run reads the same value.     *)
(***************************************************************************)
RECURSIVE SeedAlways(_, _, _)
SeedAlways(store, ids, t) ==
    IF ids = <<>> THEN store
    ELSE SeedAlways(ShelveWrapper_setitem(store, Unicode(Head(ids)), t), Tail(ids), t)

RECURSIVE Seed(_, _, _)
Seed(store, ids, t) ==
    IF ids = <<>> THEN store
    ELSE IF ShelveWrapper_contains(store, Unicode(Head(ids)))
    THEN Seed(store, Tail(ids), t)
    ELSE Seed(ShelveWrapper_setitem(store, Unicode(Head(ids)), t), Tail(ids), t)

(***************************************************************************)
(* main, lines 174-176: what the condition of the if does for video_id.    *)
(* "insert": the condition is true; "skip": it is false; "raise": its      *)
(* evaluation raises (addition_history[video_id]).                         *)
(***************************************************************************)
ConditionIgnoringWatched(video_id, watch, addition, t) ==
    IF ~ShelveWrapper_contains(addition, Unicode(video_id)) THEN "insert"
    ELSE "raise"

Condition(video_id, watch, addition, t) ==
    IF ShelveWrapper_contains(watch, Unicode(video_id)) THEN "skip"
    ELSE IF ~ShelveWrapper_contains(addition, Unicode(video_id)) THEN "insert"
    ELSE LET got == ShelveWrapper_getitem(addition, Unicode(video_id))
         IN  IF got.raised THEN "raise"
             ELSE IF t - got.value < READDITION_GRACE_SECONDS THEN "insert"
             ELSE "skip"

RecordNothing(addition, video_id, t) == addition

\* lines 178-179: the write after add_video_url returned.
RecordAddition(addition, video_id, t) ==
    IF ~ShelveWrapper_contains(addition, Unicode(video_id))
    THEN ShelveWrapper_setitem(addition, Unicode(video_id), t)
    ELSE addition

(***************************************************************************)
(* The remote account and the outcomes of remote calls.                    *)
(***************************************************************************)
Hour == 60 * 60
Epoch == READDITION_GRACE_SECONDS + Hour

Playlist(title, size) == [title |-> title, size |-> size]

get_playlist_last(lists, title) ==
    IF \E i \in 1..Len(lists) : lists[i].title = title
    THEN SetMax({i \in 1..Len(lists) : lists[i].title = title})
    ELSE 0

\* lines 82-86: the index of the first playlist with the title, 0 for None.
get_playlist(lists, title) ==
    IF \E i \in 1..Len(lists) : lists[i].title = title
    THEN SetMin({i \in 1..Len(lists) : lists[i].title = title})
    ELSE 0

\* Up to two playlists; the first one with the target title holds any of the
\* sizes, every other playlist one entry.
AccountPlaylists(sizes) ==
    { [i \in 1..Len(titles) |->
         Playlist(titles[i], IF i = get_playlist([j \in 1..Len(titles) |-> Playlist(titles[j], 1)], TITLE)
                             THEN n ELSE 1)] :
      titles \in SeqsUpTo({"Other", TITLE}, 2), n \in sizes }

\* What main did with a candidate: whether the shelves held its key when it
\* was examined (and the addition timestamp), what the condition of the if
\* did, and how the insert call ended.
Examined(id, watch, addition, verdict, outcome) ==
    [id |-> id,
     watched |-> encode(Unicode(id)) \in DOMAIN watch,
     known |-> encode(Unicode(id)) \in DOMAIN addition,
     since |-> IF encode(Unicode(id)) \in DOMAIN addition
               THEN addition[encode(Unicode(id))] ELSE 0,
     verdict |-> verdict,
     outcome |-> outcome]

NoProbe == [op |-> "none", text |-> <<>>, key |-> Unicode(<<>>), value |-> 0,
            asked |-> Unicode(<<>>), contains |-> FALSE,
            got |-> [raised |-> FALSE, value |-> 0]]

NoCandidate ==
    [id |-> <<>>, watched |-> FALSE, known |-> FALSE, since |-> 0,
     verdict |-> "none", outcome |-> "none"]

IdleFeed ==
    /\ sources = <<<<>>, <<>>, <<>>, <<>>>>
    /\ pos = StartPos
    /\ seen = {}
    /\ candidates = <<>>
    /\ feed = "idle"

IdleFetch ==
    /\ fetch_count = 0
    /\ next_page_token = NoToken
    /\ fetching = FALSE
    /\ budget = 0
    /\ total = 0
    /\ requested = FALSE
    /\ asked = 0
    /\ lastPage = NoPage
    /\ empties = 0
    /\ yielded = 0

ResetFetch ==
    /\ fetch_count' = 0
    /\ next_page_token' = NoToken
    /\ fetching' = FALSE
    /\ budget' = 0
    /\ total' = 0
    /\ requested' = FALSE
    /\ asked' = 0
    /\ lastPage' = NoPage
    /\ empties' = 0
    /\ yielded' = 0

IdleRemote ==
    /\ watched = <<>>
    /\ playlists = <<>>
    /\ created = FALSE
    /\ entries = 0
    /\ stale = 0
    /\ inserts = <<>>
    /\ added = <<>>

(***************************************************************************)
(* The run of main.                                                        *)
(***************************************************************************)
InitialWatchHistories ==
    {EmptyShelf, Put(EmptyShelf, Str(IdA), Epoch - Hour)}

InitialAdditionHistories ==
    {EmptyShelf,
     Put(EmptyShelf, Str(IdX), Epoch - Hour),
     Put(EmptyShelf, Str(IdX), Epoch - READDITION_GRACE_SECONDS)}

Init ==
    /\ IdleFeed /\ IdleFetch /\ IdleRemote
    /\ pc = "client"
    /\ run = 1
    /\ now = Epoch
    /\ started = Epoch
    /\ watch_history \in InitialWatchHistories
    /\ addition_history \in InitialAdditionHistories
    /\ before = addition_history
    /\ open = {}
    /\ caught = "none"
    /\ last = NoCandidate
    /\ probe = NoProbe

ExceptRemoteOnly(kind) ==
    /\ pc' = IF kind = "Error" THEN "done" ELSE "escaped"
    /\ caught' = IF kind = "Error" THEN kind ELSE "none"

\* The exception leaves main's try block: the bare except logs it.
Except(kind) ==
    /\ pc' = "done"
    /\ caught' = kind

\* An exception inside both with blocks: both finally clauses close.
Abort(kind) ==
    /\ Except(kind)
    /\ open' = {}
    /\ ResetFetch

\* line 169: youtube = client()
Client ==
    /\ pc = "client"
    /\ UNCHANGED probe
    /\ \/ /\ pc' = "history"
          /\ UNCHANGED caught
       \/ Except("Error")
    /\ UNCHANGED <<feedVars, fetchVars, ledgerVars, remoteVars, run, now, started,
                   before, last>>

\* line 150, and the start of watched_video_ids at the first next(): the
\* store is open when channels().list is called.
OpenWatchHistory ==
    /\ pc = "history"
    /\ UNCHANGED probe
    /\ open' = open \cup {"watch_history"}
    /\ \/ /\ \E w \in SeqsUpTo(Ids, MaxWatched) : watched' = w
          /\ fetch_playlist_items(Len(watched'), WATCH_FETCH_COUNT)
          /\ pc' = "seed"
          /\ UNCHANGED caught
       \/ /\ Except("Error")
          /\ UNCHANGED <<fetchVars, watched>>
    /\ UNCHANGED <<feedVars, watch_history, addition_history, playlists, created,
                   entries, stale, inserts, added, run, now, started, before, last>>

\* lines 151-153 with one page of the watch history; when the fetch ends the
\* store is yielded and load_addition_history opens the second store.
SeedPage ==
    /\ pc = "seed"
    /\ UNCHANGED probe
    /\ \/ \E page \in Pages(MaxResults(fetch_count), next_page_token, total) :
            LET from == Offset(next_page_token)
                s == Seed(watch_history, SubSeq(watched, from + 1, from + page.n), now)
            IN  /\ FetchIteration(page)
                /\ watch_history' = s
                /\ IF fetching'
                   THEN /\ pc' = "seed"
                        /\ UNCHANGED <<open, watched>>
                   ELSE /\ pc' = "lookup"
                        /\ open' = open \cup {"addition_history"}
                        /\ watched' = <<>>
                /\ UNCHANGED caught
       \/ /\ Except("Error")
          /\ UNCHANGED <<fetchVars, watch_history, open, watched>>
    /\ UNCHANGED <<feedVars, addition_history, playlists, created, entries, stale,
                   inserts, added, run, now, started, before, last>>

\* lines 89-92: get_playlist, then playlists().insert when there is none, or
\* the call of fetch_playlist_items on the playlist found.
GetFreshPlaylist(sizes) ==
    /\ pc = "lookup"
    /\ UNCHANGED probe
    /\ \/ \E lists \in AccountPlaylists(sizes) :
            LET found == get_playlist(lists, TITLE) IN
            /\ playlists' = lists
            /\ IF found = 0
               THEN \/ /\ created' = TRUE
                       /\ pc' = "fresh"
                       /\ ResetFetch
                       /\ UNCHANGED <<entries, stale, open, caught>>
                    \/ /\ Abort("Error")
                       /\ UNCHANGED <<created, entries, stale>>
               ELSE /\ fetch_playlist_items(lists[found].size, DRAIN_FETCH_COUNT)
                    /\ entries' = lists[found].size
                    /\ stale' = lists[found].size
                    /\ pc' = "drain"
                    /\ UNCHANGED <<created, open, caught>>
       \/ /\ Abort("Error")
          /\ UNCHANGED <<playlists, created, entries, stale>>
    /\ UNCHANGED <<feedVars, watch_history, addition_history, watched, inserts,
                   added, run, now, started, before, last>>

\* lines 92-94 with one page of the playlist: every item of the page is
\* deleted, unless a delete raises.
DrainPage ==
    /\ pc = "drain"
    /\ UNCHANGED probe
    /\ \/ \E page \in Pages(MaxResults(fetch_count), next_page_token, total) :
            \/ /\ FetchIteration(page)
               /\ entries' = entries - page.n
               /\ pc' = IF fetching' THEN "drain" ELSE "fresh"
               /\ UNCHANGED <<open, caught>>
            \/ \E k \in 0..(page.n - 1) :
               /\ (page.n = 0 /\ page.cursor) => empties < MaxEmptyPages
               /\ entries' = entries - k
               /\ Abort("Error")
       \/ /\ Abort("Error")
          /\ UNCHANGED entries
    /\ UNCHANGED <<feedVars, watch_history, addition_history, watched, playlists,
                   created, stale, inserts, added, run, now, started, before, last>>

\* line 173: the call of get_videos_by_topness; the listings are what the
\* four upstream feeds hold.
StartFeed ==
    /\ pc = "fresh"
    /\ UNCHANGED probe
    /\ pc' = "candidates"
    /\ \E f \in RunFeeds(RunRecords, MaxCandidates) : sources' = f
    /\ pos' = StartPos
    /\ seen' = {}
    /\ candidates' = <<>>
    /\ feed' = "running"
    /\ playlists' = <<>>
    /\ ResetFetch
    /\ UNCHANGED <<ledgerVars, watched, created, entries, stale, inserts, added,
                   run, now, started, before, caught, last>>

InsertOutcomes == {"ok", "HttpError", "Error"}

\* lines 173-179: one iteration of the for loop, from the next() on the feed
\* to the write of addition_history; or the end of the loop.
Candidate ==
    /\ pc = "candidates"
    /\ UNCHANGED probe
    /\ LET e == get_videos_by_topness(sources, pos, seen) IN
       /\ pos' = e.pos
       /\ seen' = e.seen
       /\ \/ /\ e.kind = "stop"
             /\ feed' = "stopped"
             /\ pc' = "done"
             /\ open' = {}
             /\ UNCHANGED <<candidates, caught, last, addition_history, inserts, added>>
          \/ /\ e.kind = "raise"
             /\ feed' = "raised"
             /\ Except("ValueError")
             /\ open' = {}
             /\ UNCHANGED <<candidates, last, addition_history, inserts, added>>
          \/ /\ e.kind = "yield"
             /\ candidates' = Append(candidates, e.id)
             /\ UNCHANGED feed
             /\ LET verdict == Condition(e.id, watch_history, addition_history, now) IN
                \/ /\ verdict = "skip"
                   /\ last' = Examined(e.id, watch_history, addition_history, "skip", "none")
                   /\ UNCHANGED <<pc, caught, open, addition_history, inserts, added>>
                \/ /\ verdict = "raise"
                   /\ last' = Examined(e.id, watch_history, addition_history, "raise", "none")
                   /\ Except("AttributeError")
                   /\ open' = {}
                   /\ UNCHANGED <<addition_history, inserts, added>>
                \/ /\ verdict = "insert"
                   /\ inserts' = Append(inserts, e.id)
                   /\ \E outcome \in InsertOutcomes :
                        /\ last' = Examined(e.id, watch_history, addition_history, "insert", outcome)
                        /\ added' = IF outcome = "ok" THEN Append(added, e.id) ELSE added
                        /\ IF outcome = "Error"
                           THEN /\ Except("Error")
                                /\ open' = {}
                                /\ UNCHANGED addition_history
                           ELSE /\ addition_history' = RecordAddition(addition_history, e.id, now)
                                /\ UNCHANGED <<pc, caught, open>>
    /\ UNCHANGED <<sources, fetchVars, watch_history, watched, playlists, created,
                   entries, stale, run, now, started, before>>

\* The next run of the job: a new process, later, against the same shelves.
NextRun ==
    /\ pc = "done"
    /\ UNCHANGED probe
    /\ run < MaxRuns
    /\ run' = run + 1
    /\ now' = now + Hour
    /\ started' = now'
    /\ before' = addition_history
    /\ pc' = "client"
    /\ open' = {}
    /\ caught' = "none"
    /\ last' = NoCandidate
    /\ sources' = <<<<>>, <<>>, <<>>, <<>>>>
    /\ pos' = StartPos
    /\ seen' = {}
    /\ candidates' = <<>>
    /\ feed' = "idle"
    /\ watched' = <<>>
    /\ playlists' = <<>>
    /\ created' = FALSE
    /\ entries' = 0
    /\ stale' = 0
    /\ inserts' = <<>>
    /\ added' = <<>>
    /\ ResetFetch
    /\ UNCHANGED <<watch_history, addition_history>>

Next ==
    \/ Client
    \/ OpenWatchHistory
    \/ SeedPage
    \/ GetFreshPlaylist(0..MaxStale)
    \/ DrainPage
    \/ StartFeed
    \/ Candidate
    \/ NextRun

Spec == Init /\ [][Next]_vars

(***************************************************************************)
(* The drain of a playlist longer than the drain's fetch_count: a run that *)
(* stands at line 172 with both shelves empty and open.                    *)
(***************************************************************************)
InitDrain ==
    /\ IdleFeed /\ IdleFetch /\ IdleRemote
    /\ pc = "lookup"
    /\ run = MaxRuns
    /\ now = Epoch
    /\ started = Epoch
    /\ watch_history = EmptyShelf
    /\ addition_history = EmptyShelf
    /\ before = EmptyShelf
    /\ open = {"watch_history", "addition_history"}
    /\ caught = "none"
    /\ last = NoCandidate
    /\ probe = NoProbe

NextDrain ==
    \/ GetFreshPlaylist({DRAIN_FETCH_COUNT, DRAIN_FETCH_COUNT + 1})
    \/ DrainPage
    \/ StartFeed
    \/ Candidate

SpecDrain == InitDrain /\ [][NextDrain]_vars

(***************************************************************************)
(* fetch_playlist_items on its own: one call with a budget around 0 or     *)
(* around the page ceiling, on a collection of a size around either.       *)
(***************************************************************************)
Budgets == 0..MaxBudget \cup PAGE_CEILING..(PAGE_CEILING + MaxBudget)
Collections == 0..MaxCollection \cup PAGE_CEILING..(PAGE_CEILING + MaxCollection)

IdleMain ==
    /\ run = 1
    /\ now = Epoch
    /\ started = Epoch
    /\ watch_history = EmptyShelf
    /\ addition_history = EmptyShelf
    /\ before = EmptyShelf
    /\ open = {}
    /\ caught = "none"
    /\ last = NoCandidate
    /\ probe = NoProbe

InitFetch ==
    /\ IdleFeed /\ IdleFetch /\ IdleRemote /\ IdleMain
    /\ pc = "call"

CallFetch ==
    /\ pc = "call"
    /\ UNCHANGED probe
    /\ pc' = "fetch"
    /\ \E size \in Collections, count \in Budgets : fetch_playlist_items(size, count)
    /\ UNCHANGED <<feedVars, ledgerVars, remoteVars, run, now, started, before,
                   caught, last>>

FetchPage ==
    /\ pc = "fetch"
    /\ UNCHANGED probe
    /\ \E page \in Pages(MaxResults(fetch_count), next_page_token, total) :
         FetchIteration(page)
    /\ UNCHANGED <<feedVars, ledgerVars, remoteVars, mainVars>>

NextFetch == CallFetch \/ FetchPage

SpecFetch == InitFetch /\ [][NextFetch]_vars

(***************************************************************************)
(* get_videos_by_topness on its own: one invocation over four listings.    *)
(***************************************************************************)
InitFeed ==
    /\ IdleFetch /\ IdleRemote /\ IdleMain
    /\ pc = "feed"
    /\ sources \in Feeds(FeedRecords, MaxRecords)
    /\ pos = StartPos
    /\ seen = {}
    /\ candidates = <<>>
    /\ feed = "running"

\* One next() on the generator.
NextVideo ==
    /\ pc = "feed"
    /\ UNCHANGED probe
    /\ feed = "running"
    /\ LET e == get_videos_by_topness(sources, pos, seen) IN
       /\ pos' = e.pos
       /\ seen' = e.seen
       /\ candidates' = IF e.kind = "yield" THEN Append(candidates, e.id) ELSE candidates
       /\ feed' = IF e.kind = "yield" THEN "running"
                  ELSE IF e.kind = "stop" THEN "stopped" ELSE "raised"
    /\ UNCHANGED <<sources, fetchVars, ledgerVars, remoteVars, mainVars>>

NextFeed == NextVideo

SpecFeed == InitFeed /\ [][NextFeed]_vars

(***************************************************************************)
(* A ShelveWrapper on its own (the shelf is watch_history): keys are set   *)
(* as unicode strings or as UTF-8 byte strings of a few texts, and looked  *)
(* up again in either representation of the text that was set.             *)
(***************************************************************************)
Texts == {<<"a">>, <<"x">>, <<"U+00E9">>, <<"a", "U+00E9">>}
Times == {Epoch, Epoch + Hour}

\* The two representations of a text: u'...' and its UTF-8 byte string.
Representations(text) == {Unicode(text), Str(UTF8(text))}

InitLedger ==
    /\ IdleFeed /\ IdleFetch /\ IdleRemote /\ IdleMain
    /\ pc = "ledger"

\* store[key] = value
SetItem ==
    /\ pc = "ledger"
    /\ \E text \in Texts, t \in Times :
         \E key \in Representations(text) :
            /\ watch_history' = ShelveWrapper_setitem(watch_history, key, t)
            /\ probe' = [NoProbe EXCEPT !.op = "set", !.text = text,
                                        !.key = key, !.value = t]
    /\ UNCHANGED <<feedVars, fetchVars, remoteVars, mainVars, addition_history, open>>

\* key in store, store[key]
Lookup ==
    /\ pc = "ledger"
    /\ probe.op = "set"
    /\ \E key \in Representations(probe.text) :
         probe' = [probe EXCEPT !.op = "get", !.asked = key,
                     !.contains = ShelveWrapper_contains(watch_history, key),
                     !.got = ShelveWrapper_getitem(watch_history, key)]
    /\ UNCHANGED <<feedVars, fetchVars, remoteVars, mainVars, ledgerVars>>

NextLedger == SetItem \/ Lookup

SpecLedger == InitLedger /\ [][NextLedger]_vars

(***************************************************************************)
(* Properties.                                                             *)
(***************************************************************************)
Key(id) == encode(Unicode(id))
InRun == pc \in {"client", "history", "seed", "lookup", "drain", "fresh", "candidates", "done"}
Examining == InRun /\ last.verdict # "none"
Range(seq) == {seq[i] : i \in 1..Len(seq)}

\* C1: a candidate whose key is in the watch-history shelf when main examines
\* it is skipped: no insert call is ever issued for an id the watch history
\* holds, whatever the addition history holds for it.
C1_WatchedNeverInserted ==
    InRun =>
        /\ \A i \in 1..Len(inserts) : Key(inserts[i]) \notin DOMAIN watch_history
        /\ (Examining /\ last.watched) =>
               /\ last.verdict = "skip"
               /\ last.id \notin Range(inserts)

C1_Witness ==
    /\ Examining
    /\ last.watched
    /\ last.known
    /\ last.verdict = "skip"

\* C2: for a candidate absent from the watch history and present in the
\* addition history the condition yields a boolean: true (insert) when
\* now - addition_history[id] < READDITION_GRACE_SECONDS, false (skip) otherwise.
C2_GraceWindowDecides ==
    (Examining /\ ~last.watched /\ last.known) =>
        last.verdict = IF now - last.since < READDITION_GRACE_SECONDS
                       THEN "insert" ELSE "skip"

\* C3: first write wins on the addition history: no step of any run removes a
\* key of addition_history or changes the timestamp stored under it.
C3_FirstWriteWins ==
    [][\A k \in DOMAIN addition_history :
          /\ k \in DOMAIN addition_history'
          /\ addition_history'[k] = addition_history[k]]_vars

C3_Witness ==
    /\ run > 1
    /\ Examining
    /\ last.known
    /\ last.since = Epoch
    /\ addition_history[Key(last.id)] = Epoch

\* A candidate of this run that neither shelf held when main examined it (the
\* watch history does not change while candidates are examined, and a run
\* examines an id once, so the addition history held it then if and only if it
\* held it when the run began).
AbsentFromBoth(id) ==
    /\ Key(id) \notin DOMAIN watch_history
    /\ Key(id) \notin DOMAIN before

Recorded(id) ==
    /\ Key(id) \in DOMAIN addition_history
    /\ addition_history[Key(id)] = now
    /\ addition_history[Key(id)] >= started

ScenarioC4 ==
    /\ InRun
    /\ pc = "done"
    /\ DOMAIN watch_history = {Key(IdA)}
    /\ before = EmptyShelf
    /\ candidates = <<IdA, IdX>>

\* C4 as stated: a candidate absent from both shelves is eligible: an insert
\* call is issued for it, and after the run the addition history holds the id
\* with the time of this run.  With watch history {a}, an empty addition history
\* and the candidates a, x, exactly x is inserted and the addition history
\* afterwards is exactly {x}.
C4_AbsentFromBothIsRecorded ==
    /\ InRun =>
          \A id \in Range(candidates) : AbsentFromBoth(id) =>
              /\ id \in Range(inserts)
              /\ pc = "done" => Recorded(id)
    /\ ScenarioC4 =>
          /\ inserts = <<IdX>>
          /\ DOMAIN addition_history = {Key(IdX)}

\* C4 amended: an insert call is issued for every candidate absent from both
\* shelves, and once that call has returned or has been rejected with an
\* HttpError the addition history holds the id with the time of this run; a
\* call that raises anything else ends the run with the id unrecorded.  In the
\* scenario a run that no unexpected exception ends has inserted exactly x and
\* leaves exactly x in the addition history.
C4_AbsentFromBothIsEligible ==
    /\ InRun =>
          \A i \in 1..Len(candidates) : AbsentFromBoth(candidates[i]) =>
              /\ candidates[i] \in Range(inserts)
              /\ (i < Len(candidates) \/ last.outcome \in {"ok", "HttpError"})
                     => Recorded(candidates[i])
              /\ (i = Len(candidates) /\ last.outcome = "Error")
                     => (pc = "done" /\ Key(candidates[i]) \notin DOMAIN addition_history)
    /\ (Examining /\ ~last.watched /\ ~last.known) =>
          /\ last.verdict = "insert"
          /\ inserts[Len(inserts)] = last.id
    /\ (ScenarioC4 /\ caught = "none") =>
          /\ inserts = <<IdX>>
          /\ DOMAIN addition_history = {Key(IdX)}
          /\ addition_history[Key(IdX)] = now

C4_Witness ==
    /\ ScenarioC4
    /\ caught = "none"
    /\ inserts = <<IdX>>
    /\ last.outcome = "HttpError"

\* C5: a page with zero items that still carries a nextPageToken ends the
\* fetch at once: after such a page no further page is requested.
C5_EmptyPageWithCursorStops ==
    (pc = "fetch" /\ requested /\ lastPage.n = 0 /\ lastPage.cursor) => ~fetching

\* C6: while fetch_playlist_items goes on to request a page, fewer items than
\* the budget have been yielded and the last page carried a nextPageToken; the
\* total yielded never exceeds the budget.
C6_StopsAtBudgetOrLastPage ==
    pc = "fetch" =>
        /\ fetching => yielded < budget
        /\ (fetching /\ requested) => lastPage.cursor
        /\ yielded <= budget
        /\ yielded + fetch_count = budget

C6_Witness ==
    /\ pc = "fetch"
    /\ ~fetching
    /\ lastPage.cursor
    /\ yielded = budget
    /\ budget > PAGE_CEILING
    /\ total > yielded

\* C7: fetch_playlist_items with fetch_count = 0 yields nothing and makes no
\* playlistItems().list call.
C7_ZeroBudget ==
    (pc = "fetch" /\ budget = 0) => (~fetching /\ ~requested /\ yielded = 0)

C7_Witness ==
    /\ pc = "fetch"
    /\ budget = 0
    /\ total > 0
    /\ ~fetching

\* C8: one invocation of get_videos_by_topness yields no id twice.
C8_NoIdTwice ==
    pc = "feed" =>
        \A i, j \in 1..Len(candidates) : candidates[i] = candidates[j] => i = j

C8_Witness ==
    /\ pc = "feed"
    /\ feed = "stopped"
    /\ sources[1] = <<Both(IdA, IdA)>>
    /\ sources[2] = <<HtmlOnly(IdA)>>
    /\ candidates = <<IdA>>

\* C9: when the target playlist exists, every entry it held at the start of
\* the run has been deleted before the first insert is issued.
C9_DrainedBeforeInsert ==
    (InRun /\ ~created /\ inserts # <<>>) => entries = 0

\* C10: every shelf a run opened is closed when the run has ended, whichever
\* way it ended.
C10_ShelvesClosed ==
    pc = "done" => open = {}

\* C11: an extraction error is never fatal: a record whose url does not split
\* into two pieces on '=' is skipped, the feed does not end with an exception
\* and the run is not ended by a ValueError.
C11_ExtractionErrorNotFatal ==
    InRun => (feed # "raised" /\ caught # "ValueError")

\* C12: a rejected insert does not abort the run: a run in which the remote
\* rejected an insert with an HttpError, and which no failing remote call
\* ended, has examined every candidate of the feed (the feed is exhausted).
Rejected == Range(inserts) \ Range(added)

C12_RejectedInsertDoesNotAbort ==
    (InRun /\ pc = "done" /\ Rejected # {} /\ caught # "Error") =>
        (feed = "stopped" /\ caught = "none")

\* C13: ledger round trip: after store[k] = t, k' in store is true and store[k']
\* is t, for k' the text of k as a unicode string or as its UTF-8 byte string.
C13_RoundTrip ==
    probe.op = "get" =>
        /\ probe.contains
        /\ ~probe.got.raised
        /\ probe.got.value = probe.value

\* C14: a record without a media payload, or whose oembed block lacks
\* provider_url or names another provider, yields no identifier (every id
\* the generator hands out comes from a record of the YouTube provider), and
\* the generator continues with the next record (when the feed is exhausted
\* every id of every YouTube record has been handed out).
Matching(v) ==
    v.media /\ "provider_url" \in v.keys /\ v.provider_url = YOUTUBE_PROVIDER

\* The record the last yield came from: the generator stands before the html
\* branch of that record, or before the next record.
Origin ==
    IF pos.stage = "html" THEN sources[pos.src][pos.rec]
    ELSE sources[pos.src][pos.rec - 1]

IdsOf(v) ==
    (IF "url" \in v.keys /\ ~to_id(v.url).raised THEN {to_id(v.url).id} ELSE {})
    \cup (IF "html" \in v.keys /\ extract_video_id_from_html(v.html).found
          THEN {extract_video_id_from_html(v.html).id} ELSE {})

C14_OtherRecordsYieldNothing ==
    pc = "feed" =>
        /\ (feed = "running" /\ candidates # <<>>) => Matching(Origin)
        /\ feed = "stopped" =>
              \A s \in 1..NUM_SOURCES : \A r \in 1..Len(sources[s]) :
                  Matching(sources[s][r]) => IdsOf(sources[s][r]) \subseteq Range(candidates)

C14_Witness ==
    /\ pc = "feed"
    /\ feed = "stopped"
    /\ sources[1] = <<Foreign, UrlOnly(IdX)>>
    /\ candidates = <<IdX>>

\* C15: main never lets an exception escape: whatever is raised (by a remote
\* call while the client is made, a shelf is seeded or the playlist is looked
\* up or drained, by to_id in the feed, by addition_history[video_id]) is
\* caught by the bare except and logged, and main returns.
C15_NothingEscapes ==
    /\ pc # "escaped"
    /\ InRun =>
        /\ caught # "none" => pc = "done"
        /\ feed = "raised" => (pc = "done" /\ caught = "ValueError")
        /\ last.verdict = "raise" => (pc = "done" /\ caught = "AttributeError")
        /\ last.outcome = "Error" => (pc = "done" /\ caught = "Error")

C15_Witness ==
    /\ pc = "done"
    /\ caught = "AttributeError"
    /\ last.verdict = "raise"
    /\ open = {}

\* C16: at most one insert per id and run: the feed hands main every id at
\* most once, main issues an insert only for the candidate it is handed, so
\* no id is inserted twice in a run, and a playlist that was drained
\* completely holds no id twice.
NoDuplicates(seq) == \A i, j \in 1..Len(seq) : seq[i] = seq[j] => i = j

C16_AtMostOneInsert ==
    InRun =>
        /\ NoDuplicates(candidates)
        /\ NoDuplicates(inserts)
        /\ Range(inserts) \subseteq Range(candidates)
        /\ entries = 0 => (NoDuplicates(added) /\ Range(added) \subseteq Range(inserts))

C16_Witness ==
    /\ pc = "done"
    /\ feed = "stopped"
    /\ sources[1] = <<UrlOnly(IdA), UrlOnly(IdA)>>
    /\ entries = 0
    /\ inserts = <<IdA>>
    /\ added = <<IdA>>

\* C17: every page request asks for min(50, remaining) items, remaining
\* being the budget of the call minus the items the earlier pages returned
\* (not minus what was asked of them).
ReturnedEarlier == yielded - lastPage.n

C17_AsksForRemaining ==
    (pc = "fetch" /\ requested) =>
        /\ asked = Min(PAGE_CEILING, budget - ReturnedEarlier)
        /\ lastPage.n <= asked

\* A first page that returned one item of the 50 asked: the second request
\* asks for 50 again, not for the one item that 51 - 50 would leave.
C17_Witness ==
    /\ pc = "fetch"
    /\ requested
    /\ budget = PAGE_CEILING + 1
    /\ ReturnedEarlier = 1
    /\ asked = PAGE_CEILING

\* C18: get_fresh_playlist creates a playlist only if no playlist of the
\* listing has exactly the target title, and then issues no playlistItems
\* list or delete call; when one or more have the title, none is created and
\* the first of them is the one returned (and drained).
TitleMatches == {i \in 1..Len(playlists) : playlists[i].title = TITLE}

C19_LedgersOnlyGrow ==
    [][/\ \A k \in DOMAIN watch_history :
             /\ k \in DOMAIN watch_history'
             /\ watch_history'[k] = watch_history[k]
       /\ \A k \in DOMAIN watch_history' \ DOMAIN watch_history :
             watch_history'[k] = now
       /\ DOMAIN addition_history \subseteq DOMAIN addition_history'
       /\ watch_history' # watch_history =>
             /\ pc = "seed"
             /\ playlists = <<>> /\ ~created
             /\ stale = 0 /\ entries = 0
             /\ inserts = <<>>]_vars

\* The second run sees x again, which the first run wrote.
C19_Witness ==
    /\ run = 2
    /\ pc = "seed"
    /\ Len(watched) = 2
    /\ watched[1] = IdX
    /\ yielded = 1
    /\ now = Epoch + Hour
    /\ watch_history[Key(IdX)] = Epoch

\* C20: every id for which main attempted an insert (it was absent from the
\* addition history then) is in the addition history, with the time of this
\* run, once the insert call has returned or has been rejected with an
\* HttpError: the addition history may hold ids the playlist never got.
Attempted(i) ==
    i < Len(inserts) \/ last.id # inserts[i] \/ last.outcome \in {"ok", "HttpError"}

C20_AttemptIsRecorded ==
    InRun =>
        \A i \in 1..Len(inserts) : Attempted(i) =>
            /\ Key(inserts[i]) \notin DOMAIN before
            /\ Key(inserts[i]) \in DOMAIN addition_history
            /\ addition_history[Key(inserts[i])] = now

C20_Witness ==
    /\ pc = "candidates"
    /\ last.verdict = "insert"
    /\ last.outcome = "HttpError"
    /\ ~last.known
    /\ last.id \notin Range(added)
    /\ Key(last.id) \in DOMAIN addition_history

====
